---- MODULE Spec2Model ----
(***************************************************************************)
(* Keystone core mutations: the create/update resolution pipeline          *)
(* (resolveInputForCreateOrUpdate), the nested mutation state, the to-many *)
(* relationship resolvers, the hook runners and the four mutation          *)
(* operations, as one state machine.                                       *)
(*                                                                         *)
(* A record (an operation on one item) is named by its path: <<i>> is the  *)
(* i-th entry of the top-level call, Append(p, k) the k-th nested create   *)
(* of record p (k = 0 for the create of a to-one field).                   *)
(***************************************************************************)
EXTENDS Integers, Sequences, FiniteSets, TLC

\* ------------------------------------------------------------------ bounds
\* entries of a createMany / updateMany call
MaxBatch == 2
\* lookups (connect / disconnect filters) plus nested creates of one call,
\* plus its entries beyond the first
MaxWork == 2

\* ------------------------------------------------------------------ values
Undefined == [t |-> "undefined"]
Null      == [t |-> "null"]
Val       == [t |-> "value"]
\* a value the validateInput rule of its field rejects
Bad       == [t |-> "bad"]
Filter    == [t |-> "filter"]
\* the value of a field of kind multi: an object of sub-values
Multi(values) == [t |-> "multi", values |-> values]
NoData    == << >>

\* ------------------------------------------------------------------ schema
\* The lists of the model: Event.group is the to-one field of the test
\* schema; Group carries a to-one and a to-many field, User is a leaf, Asset
\* carries a field of kind multi (as an image or file field is).
ListKeys == {"Event", "Group", "User", "Asset"}

FieldKeys(listKey) ==
    CASE listKey = "Event" -> <<"title", "group">>
      [] listKey = "Group" -> <<"name", "owner", "members">>
      [] listKey = "User"  -> <<"name">>
      [] listKey = "Asset" -> <<"label", "file">>

dbField(listKey, fieldKey) ==
    CASE listKey = "Event" /\ fieldKey = "group"   -> [kind |-> "relation", mode |-> "one",  list |-> "Group"]
      [] listKey = "Group" /\ fieldKey = "owner"   -> [kind |-> "relation", mode |-> "one",  list |-> "User"]
      [] listKey = "Group" /\ fieldKey = "members" -> [kind |-> "relation", mode |-> "many", list |-> "User"]
      [] listKey = "Asset" /\ fieldKey = "file"    -> [kind |-> "multi",    mode |-> "none", list |-> "none"]
      [] OTHER                                     -> [kind |-> "scalar",   mode |-> "none", list |-> "none"]

isRequired(listKey, fieldKey) ==
    \/ listKey = "Event" /\ fieldKey = "title"
    \/ listKey = "Group" /\ fieldKey = "name"
    \/ listKey = "Asset"

\* fields whose __legacy.defaultValue is a function
hasDefaultValue(listKey, fieldKey) == listKey = "Event" /\ fieldKey = "title"

HookNames == {"resolveInput", "validateInput", "beforeChange", "afterChange"}

fieldHooks(listKey, fieldKey) ==
    CASE listKey = "Event" /\ fieldKey = "title"   -> {"resolveInput", "validateInput", "beforeChange", "afterChange"}
      [] listKey = "Event" /\ fieldKey = "group"   -> {"beforeChange", "afterChange"}
      [] listKey = "Group" /\ fieldKey = "name"    -> {"afterChange"}
      [] listKey = "Group" /\ fieldKey = "members" -> {"afterChange"}
      [] listKey = "User"  /\ fieldKey = "name"    -> {"afterChange"}
      [] OTHER                                     -> {}

listHooks(listKey) ==
    CASE listKey = "Event" -> {"resolveInput", "validateInput", "beforeChange", "afterChange"}
      [] listKey = "Group" -> {"beforeChange"}
      [] listKey = "User"  -> {}
      [] listKey = "Asset" -> {}

\* the rule of a field's validateInput hook: Event.title rejects Bad
fieldRuleBroken(listKey, fieldKey, resolvedData) ==
    listKey = "Event" /\ fieldKey = "title" /\ resolvedData[fieldKey] = Bad

\* the rule of a list's validateInput hook: an Event needs a group
listRuleBroken(listKey, resolvedData) ==
    listKey = "Event" /\ resolvedData["group"] = Undefined

Range(s) == {s[i] : i \in DOMAIN s}

\* ------------------------------------------------------------------ inputs
\* A raw input is a function from the keys it holds to values. A relation
\* value is null or an object: keys are the properties it holds.
SeqsUpTo(S, k) == UNION {[1..m -> S] : m \in 0..k}

OneValue(keys, data) == [t |-> "one", keys |-> keys, data |-> data]

ManyValue(connect, create, disconnect, disconnectAll, keys) ==
    [t |-> "many", keys |-> keys, connect |-> connect, create |-> create,
     disconnect |-> disconnect, disconnectAll |-> disconnectAll]

\* the properties of a to-many object that hold a value
ManyKeys(connect, create, disconnect, disconnectAll) ==
    (IF connect # << >> THEN {"connect"} ELSE {}) \cup
    (IF create # << >> THEN {"create"} ELSE {}) \cup
    (IF disconnect # << >> THEN {"disconnect"} ELSE {}) \cup
    (IF disconnectAll THEN {"disconnectAll"} ELSE {})

InputsOver(choices) ==
    UNION {{d \in [K -> UNION {choices[k] : k \in K}] : \A k \in K : d[k] \in choices[k]} :
           K \in SUBSET DOMAIN choices}

UserInputs == {[name |-> Val]}

\* to-one objects: connect / create on create, disconnect too on update; an
\* object holding create next to connect carries the payload other
OneValues(operation, Datas, other) ==
    LET plain == IF operation = "update" THEN {"connect", "disconnect"} ELSE {"connect"}
    IN {OneValue(K, NoData) : K \in SUBSET plain} \cup
       {OneValue({"create"}, d) : d \in Datas} \cup
       {OneValue({"connect", "create"}, other)}

\* to-many objects: connect / create on create (_CreateValueType),
\* disconnect / disconnectAll too on update (_UpdateValueType)
ManyValues(operation, Datas, work) ==
    {ManyValue(co, cr, di, da, ManyKeys(co, cr, di, da)) :
        co \in SeqsUpTo({Filter}, work), cr \in SeqsUpTo(Datas, work),
        di \in IF operation = "update" THEN SeqsUpTo({Filter}, work) ELSE {<< >>},
        da \in IF operation = "update" THEN BOOLEAN ELSE {FALSE}}

\* lookups and nested creates an input asks for
OneWork(v) ==
    IF v.t # "one" THEN 0
    ELSE (IF "connect" \in v.keys THEN 1 ELSE 0) + (IF "create" \in v.keys THEN 1 ELSE 0)

ManyWork(v) ==
    IF v.t # "many" THEN 0 ELSE Len(v.connect) + Len(v.create) + Len(v.disconnect)

GroupWork(d) ==
    (IF "owner" \in DOMAIN d THEN OneWork(d.owner) ELSE 0)
    + (IF "members" \in DOMAIN d THEN ManyWork(d.members) ELSE 0)

EventWork(d) ==
    IF "group" \in DOMAIN d
    THEN OneWork(d.group)
         + (IF d.group.t = "one" /\ "create" \in d.group.keys THEN GroupWork(d.group.data) ELSE 0)
    ELSE 0

InputWork(listKey, d) ==
    CASE listKey = "Event" -> EventWork(d)
      [] listKey = "Group" -> GroupWork(d)
      [] listKey = "User"  -> 0
      [] listKey = "Asset" -> 0

\* The inputs of the model. role is "top" (createOne / updateOne), "batch"
\* (an entry of createMany / updateMany) or "nested" (the payload of an inline
\* create). Group.owner is given to top-level creates only; the members of a
\* batch entry hold inline creates only.
GroupInputs(operation, role, work) ==
    {d \in InputsOver(
        [name    |-> {Val},
         owner   |-> IF role = "top" /\ operation = "create"
                     THEN OneValues("create", UserInputs, [name |-> Val]) ELSE {},
         members |-> IF role = "batch"
                     THEN {v \in ManyValues(operation, UserInputs, work) : v.keys = {"create"}}
                     ELSE {Null} \cup ManyValues(operation, UserInputs, work)]) :
        GroupWork(d) <= work}

EventInputs(operation, work) ==
    {d \in InputsOver(
        [title |-> {Null, Val, Bad},
         group |-> OneValues(operation, GroupInputs("create", "nested", work - 1),
                             [name |-> Val])]) :
        EventWork(d) <= work}

\* an Asset: its label, and its file as null or as the object of its sub-values
AssetInputs ==
    InputsOver([label |-> {Null, Val},
                file  |-> {Null} \cup {Multi(<<a, b>>) : a, b \in {Null, Undefined, Val}}])

Inputs(listKey, operation, role, work) ==
    CASE listKey = "Event" -> EventInputs(operation, work)
      [] listKey = "Group" -> GroupInputs(operation, role, work)
      [] listKey = "User"  -> UserInputs
      [] listKey = "Asset" -> AssetInputs

\* ------------------------------------------------------------------ state
VARIABLES
    call,        \* the top-level call: its operation, list and database provider
    rec,         \* path -> the state of the create / update of one item
    writeLimit   \* the pLimit of createMany / updateMany: activeCount and queue

vars == <<call, rec, writeLimit>>

NoCall  == [kind |-> "none", listKey |-> "none", provider |-> "none", size |-> 0]
NoError == [kind |-> "none", from |-> "none", count |-> 0, errors |-> << >>]

\* one failure reason of an aggregate: the kind of the error, the task (field
\* key, rule or closure) it comes from and the position of that task
Reason(kind, from, idx) == [kind |-> kind, from |-> from, idx |-> idx]
Error(kind, from, errors) == [kind |-> kind, from |-> from, count |-> Len(errors), errors |-> errors]

\* packages/keystone/src/lib/core/graphql-errors
AccessDeniedError             == Error("KS_ACCESS_DENIED", "access", << >>)
ValidationFailureError(from, errors) == Error("KS_VALIDATION_FAILURE", from, errors)
MutationError(from, errors)   == Error("KS_MUTATION_ERROR", from, errors)

\* a task of a fan-out: s is pending, fulfilled, skipped (no hook to call) or rejected
Pending     == [s |-> "pending",   kind |-> "none", count |-> 0]
Fulfilled   == [s |-> "fulfilled", kind |-> "none", count |-> 0]
Skipped     == [s |-> "skipped",   kind |-> "none", count |-> 0]
Rejected(kind, count) == [s |-> "rejected", kind |-> kind, count |-> count]
NoTask      == [s |-> "none",      kind |-> "none", count |-> 0]

ListLevel == "$list"

Task(st, phase, key) ==
    IF <<phase, key>> \in DOMAIN st.tasks THEN st.tasks[<<phase, key>>] ELSE NoTask

SetTask(st, phase, key, v) ==
    [st EXCEPT !.tasks = (<<phase, key>> :> v) @@ st.tasks]

Get(input, key) == IF key \in DOMAIN input THEN input[key] ELSE Undefined

NewRecord(listKey, operation, caller, input) ==
    [listKey |-> listKey, operation |-> operation, caller |-> caller,
     originalInput |-> input,
     pc |-> "access", at |-> "none",
     tasks |-> << >>, lookups |-> << >>, resolvedData |-> << >>,
     collector |-> << >>, afterChanges |-> << >>,
     error |-> NoError, settled |-> "pending"]

\* ------------------------------------------------------------------ helpers
Fields(st) == FieldKeys(st.listKey)

Map(f(_), s) == [i \in DOMAIN s |-> f(s[i])]

\* the await of a fan-out: some task of the phase has not settled
AnyPending(st, phase) ==
    \E i \in DOMAIN Fields(st) : Task(st, phase, Fields(st)[i]).s = "pending"

Results(st, phase) == Map(LAMBDA f : Task(st, phase, f), Fields(st))

\* index.ts, promiseAllRejectWithMutationError: the Error Aggregator. Given the
\* settled results of all tasks, in task order: NoError when none rejected,
\* else one MutationError carrying every rejection reason in task order.
promiseAllRejectWithMutationError(from, keys, results) ==
    LET failed == SelectSeq([i \in DOMAIN results |-> i],
                            LAMBDA i : results[i].s = "rejected")
    IN IF failed = << >> THEN NoError
       ELSE MutationError(from, Map(LAMBDA i : Reason(results[i].kind, keys[i], i), failed))

Fail(st, err) ==
    [st EXCEPT !.at = st.pc, !.pc = "failed", !.error = err,
               !.settled = IF @ = "pending" THEN "rejected" ELSE @]

\* HookTasks calling the hook of every field, in the input or not
HookTasks_NoFilter(st, hookName, onlyInputKeys) ==
    [k \in {<<hookName, f>> : f \in Range(Fields(st))} |->
        IF hookName \in fieldHooks(st.listKey, k[2]) THEN Pending ELSE Skipped]

\* the field-level fan-out of one hook: a field without the hook, or one the
\* filter leaves out, calls nothing
HookTasks(st, hookName, onlyInputKeys) ==
    [k \in {<<hookName, f>> : f \in Range(Fields(st))} |->
        IF /\ hookName \in fieldHooks(st.listKey, k[2])
           /\ onlyInputKeys => k[2] \in DOMAIN st.originalInput
        THEN Pending ELSE Skipped]

LaunchHooks(st, hookName, onlyInputKeys) ==
    [st EXCEPT !.pc = hookName, !.collector = << >>,
               !.tasks = HookTasks(st, hookName, onlyInputKeys) @@ st.tasks]

LaunchListHook(st, hookName, pc) ==
    SetTask([st EXCEPT !.pc = pc, !.collector = << >>], hookName, ListLevel, Pending)

\* RequiredValue taking a multi value for null as soon as one sub-value is
RequiredValue_AnyNull(st, f) ==
    LET val == st.resolvedData[f]
    IN IF dbField(st.listKey, f).kind # "multi" THEN val
       ELSE IF \E x \in Range(val.values) : x = Null THEN Null
       ELSE IF \A x \in Range(val.values) : x = Undefined THEN Undefined
       ELSE val

\* create-update.ts 433-440: the value the required check looks at
RequiredValue(st, f) ==
    LET val       == st.resolvedData[f]
        everyNull == IF \A x \in Range(val.values) : x = Null THEN Null ELSE val
    IN IF dbField(st.listKey, f).kind # "multi" THEN val
       ELSE IF \A x \in Range(val.values) : x = Undefined THEN Undefined ELSE everyNull

\* create-update.ts 430-449: the required-field check, in field order
RequiredViolations(st) ==
    SelectSeq(Fields(st), LAMBDA f :
        /\ isRequired(st.listKey, f)
        /\ \/ st.operation = "create" /\ RequiredValue(st, f) \in {Null, Undefined}
           \/ st.operation = "update" /\ RequiredValue(st, f) = Null)

\* hooks.ts 8-20, validationHook: after the routine, throw if it reported
ValidationErrors(st) == [i \in DOMAIN st.collector |-> Reason("violation", st.collector[i], i)]

\* the caller's continuation once resolveInputForCreateOrUpdate has returned:
\* createMany / updateMany hand the write to writeLimit, the others call it
Resolved(st) ==
    IF st.caller \in {"createMany", "updateMany"}
    THEN [st EXCEPT !.pc = "resolved"]
    ELSE SetTask([st EXCEPT !.pc = "writing"], "write", "$item", Pending)

Done(st) ==
    [st EXCEPT !.pc = "done", !.settled = IF @ = "pending" THEN "fulfilled" ELSE @]

\* runSideEffectOnlyHook raising the first rejection alone, as a plain
\* Promise.all over the field hooks would
AfterSideEffectFields_FirstReasonOnly(st, hookName) ==
    LET err == promiseAllRejectWithMutationError(hookName, Fields(st), Results(st, hookName))
    IN IF err # NoError THEN Fail(st, MutationError(hookName, SubSeq(err.errors, 1, 1)))
       ELSE IF hookName \in listHooks(st.listKey)
            THEN LaunchListHook(st, hookName, IF hookName = "beforeChange"
                                              THEN "beforeChangeList" ELSE "afterChangeList")
            ELSE IF hookName = "beforeChange" THEN Resolved(st) ELSE Done(st)

\* runSideEffectOnlyHook going on to the list hook whatever the field hooks did
AfterSideEffectFields_ListHookAnyway(st, hookName) ==
    IF hookName \in listHooks(st.listKey)
    THEN LaunchListHook(st, hookName, IF hookName = "beforeChange"
                                      THEN "beforeChangeList" ELSE "afterChangeList")
    ELSE IF hookName = "beforeChange" THEN Resolved(st) ELSE Done(st)

\* hooks.ts 22-55, runSideEffectOnlyHook: after the field fan-out has settled
AfterSideEffectFields(st, hookName) ==
    LET err == promiseAllRejectWithMutationError(hookName, Fields(st), Results(st, hookName))
    IN IF err # NoError THEN Fail(st, err)
       ELSE IF hookName \in listHooks(st.listKey)
            THEN LaunchListHook(st, hookName, IF hookName = "beforeChange"
                                              THEN "beforeChangeList" ELSE "afterChangeList")
            ELSE IF hookName = "beforeChange" THEN Resolved(st) ELSE Done(st)

AfterSideEffectList(st, hookName) ==
    IF Task(st, hookName, ListLevel).s = "rejected"
    THEN Fail(st, Error(Task(st, hookName, ListLevel).kind, hookName, << >>))
    ELSE IF hookName = "beforeChange" THEN Resolved(st) ELSE Done(st)

\* create-update.ts 474-483: the list validateInput collector, then beforeChange
AfterValidateList(st) ==
    IF Task(st, "validateInput", ListLevel).s = "rejected"
    THEN Fail(st, Error(Task(st, "validateInput", ListLevel).kind, "validateInput", << >>))
    ELSE IF st.collector # << >>
         THEN Fail(st, ValidationFailureError("validateInputList", ValidationErrors(st)))
         ELSE LaunchHooks(st, "beforeChange", TRUE)

\* AfterValidateFields going on although the field hooks reported violations
AfterValidateFields_IgnoresViolations(st) ==
    LET err == promiseAllRejectWithMutationError("validateInput", Fields(st),
                                                 Results(st, "validateInput"))
    IN IF err # NoError THEN Fail(st, err)
       ELSE IF "validateInput" \in listHooks(st.listKey)
            THEN LaunchListHook(st, "validateInput", "validateInputList")
            ELSE LaunchHooks(st, "beforeChange", TRUE)

\* create-update.ts 462-477: the field validateInput collector, then the list's
AfterValidateFields(st) ==
    LET err == promiseAllRejectWithMutationError("validateInput", Fields(st),
                                                 Results(st, "validateInput"))
    IN IF err # NoError THEN Fail(st, err)
       ELSE IF st.collector # << >>
            THEN Fail(st, ValidationFailureError("validateInput", ValidationErrors(st)))
            ELSE IF "validateInput" \in listHooks(st.listKey)
                 THEN LaunchListHook(st, "validateInput", "validateInputList")
                 ELSE LaunchHooks(st, "beforeChange", TRUE)

\* create-update.ts 427-449: validationHook over the required-field check
RequiredCheck(st) ==
    LET checked == SetTask([st EXCEPT !.pc = "required"], "required", "$check", Fulfilled)
    IN IF RequiredViolations(st) # << >>
       THEN Fail([checked EXCEPT !.collector = RequiredViolations(st)],
                 ValidationFailureError("required",
                    [i \in DOMAIN RequiredViolations(st) |->
                        Reason("violation", RequiredViolations(st)[i], i)]))
       ELSE LaunchHooks(checked, "validateInput", FALSE)

\* create-update.ts 518-549, resolveInputHook: after the field fan-out
AfterResolveInputFields(st) ==
    LET err == promiseAllRejectWithMutationError("resolveInput", Fields(st),
                                                 Results(st, "resolveInput"))
    IN IF err # NoError THEN Fail(st, err)
       ELSE IF "resolveInput" \in listHooks(st.listKey)
            THEN LaunchListHook(st, "resolveInput", "resolveInputList")
            ELSE RequiredCheck(st)

AfterResolveInputList(st) ==
    IF Task(st, "resolveInput", ListLevel).s = "rejected"
    THEN Fail(st, Error(Task(st, "resolveInput", ListLevel).kind, "resolveInput", << >>))
    ELSE RequiredCheck(st)

\* AfterFields without the throw: the resolveInput hooks run whatever the
\* field resolution gave
AfterFields_IgnoresFailure(st) == LaunchHooks(st, "resolveInput", FALSE)

\* AfterFields raising the first rejection as it is, not a composite error
AfterFields_RethrowsFirst(st) ==
    LET err == promiseAllRejectWithMutationError("fields", Fields(st), Results(st, "fields"))
    IN IF err # NoError THEN Fail(st, Error(err.errors[1].kind, "fields", << >>))
       ELSE LaunchHooks(st, "resolveInput", FALSE)

\* create-update.ts 336-425: after the per-field resolution has settled
AfterFields(st) ==
    LET err == promiseAllRejectWithMutationError("fields", Fields(st), Results(st, "fields"))
    IN IF err # NoError THEN Fail(st, err)
       ELSE LaunchHooks(st, "resolveInput", FALSE)

\* create-update.ts 489-497, the afterChange closure once the nested replay
\* (nestedMutationState.afterChange) has resolved
AfterReplay(st) == LaunchHooks(st, "afterChange", TRUE)

\* One record's pipeline runs on, without yielding, until it awaits a task
\* that is still pending (or has returned, failed or finished). The record it
\* starts from is evaluated once.
RECURSIVE Run(_)
Run(from) ==
    LET Go(st) ==
        CASE st.pc = "fields" ->
                IF AnyPending(st, "fields") THEN st ELSE Run(AfterFields(st))
          [] st.pc = "resolveInput" ->
                IF AnyPending(st, "resolveInput") THEN st ELSE Run(AfterResolveInputFields(st))
          [] st.pc = "resolveInputList" ->
                IF Task(st, "resolveInput", ListLevel).s = "pending" THEN st
                ELSE Run(AfterResolveInputList(st))
          [] st.pc = "validateInput" ->
                IF AnyPending(st, "validateInput") THEN st ELSE Run(AfterValidateFields(st))
          [] st.pc = "validateInputList" ->
                IF Task(st, "validateInput", ListLevel).s = "pending" THEN st
                ELSE Run(AfterValidateList(st))
          [] st.pc = "beforeChange" ->
                IF AnyPending(st, "beforeChange") THEN st
                ELSE Run(AfterSideEffectFields(st, "beforeChange"))
          [] st.pc = "beforeChangeList" ->
                IF Task(st, "beforeChange", ListLevel).s = "pending" THEN st
                ELSE Run(AfterSideEffectList(st, "beforeChange"))
          [] st.pc = "replay" ->
                IF st.afterChanges # << >> THEN st ELSE Run(AfterReplay(st))
          [] st.pc = "afterChange" ->
                IF AnyPending(st, "afterChange") THEN st
                ELSE Run(AfterSideEffectFields(st, "afterChange"))
          [] st.pc = "afterChangeList" ->
                IF Task(st, "afterChange", ListLevel).s = "pending" THEN st
                ELSE Run(AfterSideEffectList(st, "afterChange"))
          [] OTHER -> st
    IN CHOOSE next \in {Go(st) : st \in {from}} : TRUE

\* ------------------------------------------------------------------ field resolution
NotNull(s) == SelectSeq(s, LAMBDA x : x # Null)

OneResult(what)  == [t |-> "oneResult", op |-> what]
ManyResult(set, disconnect, connect) ==
    [t |-> "manyResult", set |-> set, disconnect |-> disconnect, connect |-> connect,
     create |-> << >>]
ConnectId(k) == [t |-> "id", of |-> k]

\* the path of the k-th nested create of record n
Child(n, k) == Append(n, k)

\* nested-mutation-many-input-resolvers.ts 135-144
assertValidManyOperation(val) ==
    \/ "connect" \in val.keys
    \/ "create" \in val.keys
    \/ "disconnect" \in val.keys
    \/ val.disconnectAll

\* DisconnectFilters when disconnectAll is not looked at
DisconnectFilters_IgnoresDisconnectAll(operation, val) ==
    IF operation = "update" THEN val.disconnect ELSE << >>

\* the disconnect filters getDisconnects is called with (line 175); the create
\* resolver calls no getDisconnects
DisconnectFilters(operation, val) ==
    IF operation = "update" /\ ~val.disconnectAll THEN val.disconnect ELSE << >>

\* What the resolution of one field starts, synchronously: the task the
\* fan-out awaits, the value known at once, the lookups issued and the nested
\* creates started.
Launched(task, value, lookups, children) ==
    [task |-> task, value |-> value, lookups |-> lookups, children |-> children]

Nothing(value) == Launched(Fulfilled, value, << >>, << >>)

\* nested-mutation-many-input-resolvers.ts 157-159 and 173-183, up to the
\* first await: an object without an operation throws, else the lookups and
\* nested creates are started
ToManyStart(n, st, f, input) ==
    IF ~assertValidManyOperation(input)
    THEN Launched(Rejected("BAD_USER_INPUT", 0), Undefined, << >>, << >>)
    ELSE LET connects    == NotNull(input.connect)
             creates     == NotNull(input.create)
             disconnects == DisconnectFilters(st.operation, input)
         IN Launched(Pending, Undefined,
                [k \in {<<f, "connect", i>> : i \in DOMAIN connects} |-> "pending"] @@
                [k \in {<<f, "disconnect", i>> : i \in DOMAIN disconnects} |->
                    IF disconnects[k[3]] = Null THEN "dropped" ELSE "pending"],
                [c \in {Child(n, i) : i \in DOMAIN creates} |->
                    NewRecord(dbField(st.listKey, f).list, "create", "nested",
                              creates[c[Len(c)]])])

\* ToManyLaunch without the null check: null is handled like an empty object
ToManyLaunch_NullAsEmptyObject(n, st, f, input) ==
    ToManyStart(n, st, f, IF input = Null THEN ManyValue(<< >>, << >>, << >>, FALSE, {})
                          ELSE input)

\* nested-mutation-many-input-resolvers.ts 153-156 and 169-172: null resolves
\* to undefined
ToManyLaunch(n, st, f, input) ==
    IF input = Null THEN Nothing(Undefined) ELSE ToManyStart(n, st, f, input)

\* nested-mutation-one-input-resolvers, up to the first await: an object that
\* does not hold exactly one of connect / create / disconnect throws
ToOneLaunch(n, st, f, input) ==
    IF Cardinality(input.keys) # 1
    THEN Launched(Rejected("BAD_USER_INPUT", 0), Undefined, << >>, << >>)
    ELSE IF "disconnect" \in input.keys THEN Nothing(OneResult("disconnect"))
    ELSE IF "connect" \in input.keys
    THEN Launched(Pending, Undefined, (<<f, "connect", 1>> :> "pending"), << >>)
    ELSE Launched(Pending, Undefined, << >>,
                  (Child(n, 0) :> NewRecord(dbField(st.listKey, f).list, "create", "nested",
                                            input.data)))

\* the input resolver of a field of kind multi: it returns an object of
\* sub-values, all absent when no value was given and all null for null
MultiResolve(input) ==
    IF input = Undefined THEN Multi(<<Undefined, Undefined>>)
    ELSE IF input = Null THEN Multi(<<Null, Null>>)
    ELSE input

\* create-update.ts 338-412: the callback of the field fan-out for field f
FieldLaunch(n, st, f) ==
    LET input == Get(st.originalInput, f)
        db    == dbField(st.listKey, f)
    IN
    IF db.kind = "multi" THEN Nothing(MultiResolve(input))
    ELSE IF db.kind # "relation"
    THEN \* 344-353: a default value function is awaited
         IF st.operation = "create" /\ input = Undefined /\ hasDefaultValue(st.listKey, f)
         THEN Launched(Pending, input, << >>, << >>)
         ELSE Nothing(input)
    ELSE IF input = Undefined THEN Nothing(input)                   \* 369-371
    ELSE IF db.mode = "many" THEN ToManyLaunch(n, st, f, input)
    ELSE ToOneLaunch(n, st, f, input)

RECURSIVE MergeAll(_)
MergeAll(fns) == IF fns = << >> THEN << >> ELSE Head(fns) @@ MergeAll(Tail(fns))

\* create-update.ts 334-414: the record with its field fan-out launched
LaunchFields(n, st) ==
    [st EXCEPT !.pc = "fields",
               !.tasks = [k \in {<<"fields", f>> : f \in Range(Fields(st))} |->
                             FieldLaunch(n, st, k[2]).task] @@ st.tasks,
               !.resolvedData = [f \in Range(Fields(st)) |-> FieldLaunch(n, st, f).value],
               !.lookups = MergeAll(Map(LAMBDA f : FieldLaunch(n, st, f).lookups, Fields(st)))]

\* the nested creates the launch of record n's field fan-out starts
Spawned(n, st) == MergeAll(Map(LAMBDA f : FieldLaunch(n, st, f).children, Fields(st)))

\* the records nested under field f of record n
ChildrenOf(n, f) ==
    {c \in DOMAIN rec :
        /\ Len(c) = Len(n) + 1 /\ SubSeq(c, 1, Len(n)) = n
        /\ (c[Len(c)] = 0) = (dbField(rec[n].listKey, f).mode = "one")
        /\ dbField(rec[n].listKey, f).kind = "relation"}

Parent(c) == SubSeq(c, 1, Len(c) - 1)
Top(c) == SubSeq(c, 1, 1)

LookupsOf(st, f, kind) == {k \in DOMAIN st.lookups : k[1] = f /\ k[2] = kind}

\* p-limit: a record whose pipeline has returned hands its write to writeLimit
Enqueue(n, st) ==
    IF st.pc = "resolved" THEN [writeLimit EXCEPT !.queue = Append(@, n)] ELSE writeLimit

\* record n goes on from st, until its next await
Commit(n, st) ==
    LET next == Run(st)
    IN /\ rec' = [rec EXCEPT ![n] = next]
       /\ writeLimit' = Enqueue(n, next)
       /\ UNCHANGED call

\* ------------------------------------------------------------------ scheduling
\* Promise continuations (microtasks) run before the next I/O completion is
\* delivered: a join whose promises have all settled runs before any other
\* lookup, hook, access check or write settles.
\* CreateAndConnectSettled when the nested creates are not awaited
CreateAndConnectSettled_LookupsOnly(n, f) ==
    \A k \in LookupsOf(rec[n], f, "connect") : rec[n].lookups[k] # "pending"

\* nested-mutation-many-input-resolvers.ts 96-105: the connects and the creates
\* have all settled
CreateAndConnectSettled(n, f) ==
    /\ \A k \in LookupsOf(rec[n], f, "connect") : rec[n].lookups[k] # "pending"
    /\ \A c \in ChildrenOf(n, f) : rec[c].settled # "pending"

CreateAndConnectErrors(n, f) ==
    Cardinality({k \in LookupsOf(rec[n], f, "connect") : rec[n].lookups[k] \in {"threw", "invalid"}})
    + Cardinality({c \in ChildrenOf(n, f) : rec[c].settled = "rejected"})

DisconnectsSettled(n, f) ==
    \A k \in LookupsOf(rec[n], f, "disconnect") : rec[n].lookups[k] # "pending"

DisconnectsRejected(n, f) ==
    \E k \in LookupsOf(rec[n], f, "disconnect") : rec[n].lookups[k] = "invalid"

RelationAwaited(n, f, mode) ==
    /\ dbField(rec[n].listKey, f).kind = "relation"
    /\ dbField(rec[n].listKey, f).mode = mode
    /\ Task(rec[n], "fields", f).s = "pending"

\* a resolver that stops waiting at the first rejected lookup or nested create,
\* as Promise.all would
ToManyCanSettle_FailFast(n, f) ==
    /\ RelationAwaited(n, f, "many")
    /\ \/ CreateAndConnectSettled(n, f) /\ DisconnectsSettled(n, f)
       \/ CreateAndConnectErrors(n, f) > 0
       \/ DisconnectsRejected(n, f)

ToManyCanSettle(n, f) ==
    /\ RelationAwaited(n, f, "many")
    /\ \/ CreateAndConnectSettled(n, f) /\ DisconnectsSettled(n, f)
       \/ CreateAndConnectSettled(n, f) /\ CreateAndConnectErrors(n, f) > 0
       \/ DisconnectsRejected(n, f)

ToOneCanSettle(n, f) ==
    /\ RelationAwaited(n, f, "one")
    /\ CreateAndConnectSettled(n, f)

ReplayCanSettle(n) ==
    /\ rec[n].pc = "replay"
    /\ rec[n].afterChanges # << >>
    /\ \A c \in Range(rec[n].afterChanges) : rec[c].pc \in {"done", "failed"}

Concurrency == IF call.provider = "sqlite" THEN 1 ELSE MaxBatch + 1

LimitCanRun ==
    /\ writeLimit.queue # << >>
    /\ writeLimit.activeCount < Concurrency

ContinuationReady ==
    \/ LimitCanRun
    \/ \E n \in DOMAIN rec :
          \/ ReplayCanSettle(n)
          \/ \E f \in Range(FieldKeys(rec[n].listKey)) :
                ToManyCanSettle(n, f) \/ ToOneCanSettle(n, f)

\* an I/O completion (a lookup, a hook, an access check, a write) is delivered
Delivered == ~ContinuationReady

\* ------------------------------------------------------------------ operations
TopLists   == {"Event", "Group", "Asset"}
BatchLists == {"Group"}
Providers  == {"sqlite", "postgresql"}

RECURSIVE TotalWork(_, _)
TotalWork(listKey, datas) ==
    IF datas = << >> THEN 0
    ELSE InputWork(listKey, Head(datas)) + TotalWork(listKey, Tail(datas))

BatchInputs(listKey, operation) ==
    {datas \in UNION {[1..m -> Inputs(listKey, operation, "batch", MaxWork)] : m \in 1..MaxBatch} :
        TotalWork(listKey, datas) + Len(datas) - 1 <= MaxWork}

\* create-update.ts 246-251
CreateOne ==
    /\ call = NoCall
    /\ \E listKey \in TopLists :
       \E data \in Inputs(listKey, "create", "top", MaxWork) :
          /\ call' = [kind |-> "createOne", listKey |-> listKey, provider |-> "none", size |-> 1]
          /\ rec' = (<<1>> :> NewRecord(listKey, "create", "createOne", data))
    /\ UNCHANGED writeLimit

\* create-update.ts 280-294
UpdateOne ==
    /\ call = NoCall
    /\ \E listKey \in TopLists :
       \E data \in Inputs(listKey, "update", "top", MaxWork) :
          /\ call' = [kind |-> "updateOne", listKey |-> listKey, provider |-> "none", size |-> 1]
          /\ rec' = (<<1>> :> NewRecord(listKey, "update", "updateOne", data))
    /\ UNCHANGED writeLimit

\* create-update.ts 260-268
CreateMany ==
    /\ call = NoCall
    /\ \E listKey \in BatchLists, provider \in Providers :
       \E datas \in BatchInputs(listKey, "create") :
          /\ call' = [kind |-> "createMany", listKey |-> listKey, provider |-> provider,
                      size |-> Len(datas)]
          /\ rec' = [n \in {<<i>> : i \in DOMAIN datas} |->
                        NewRecord(listKey, "create", "createMany", datas[n[1]])]
    /\ writeLimit' = [activeCount |-> 0, queue |-> << >>]

\* create-update.ts 310-318
UpdateMany ==
    /\ call = NoCall
    /\ \E listKey \in BatchLists, provider \in Providers :
       \E datas \in BatchInputs(listKey, "update") :
          /\ call' = [kind |-> "updateMany", listKey |-> listKey, provider |-> provider,
                      size |-> Len(datas)]
          /\ rec' = [n \in {<<i>> : i \in DOMAIN datas} |->
                        NewRecord(listKey, "update", "updateMany", datas[n[1]])]
    /\ writeLimit' = [activeCount |-> 0, queue |-> << >>]

\* AccessChecked when the field fan-out is launched before the outcome of the
\* access check is looked at
AccessChecked_LaunchesFirst(n, allowed) ==
    LET launched == LaunchFields(n, rec[n])
        next     == IF allowed THEN Run(launched)
                    ELSE Fail([launched EXCEPT !.pc = "access"], AccessDeniedError)
    IN /\ rec' = (n :> next) @@ Spawned(n, rec[n]) @@ rec
       /\ writeLimit' = Enqueue(n, next)
       /\ UNCHANGED call

\* the access check has settled: denied, or the pipeline starts and launches
\* its field fan-out (and the nested creates of its relation fields)
AccessChecked(n, allowed) ==
    IF allowed
    THEN LET next == Run(LaunchFields(n, rec[n]))
         IN /\ rec' = (n :> next) @@ Spawned(n, rec[n]) @@ rec
            /\ writeLimit' = Enqueue(n, next)
            /\ UNCHANGED call
    ELSE Commit(n, Fail(rec[n], AccessDeniedError))

\* create-update.ts 234-244, createOneState
ApplyAccessControlForCreate(n) ==
    /\ n \in DOMAIN rec
    /\ rec[n].pc = "access" /\ rec[n].operation = "create"
    /\ Delivered
    /\ \E allowed \in BOOLEAN : AccessChecked(n, allowed)

\* create-update.ts 294-295 and 318-319
GetAccessControlledItemForUpdate(n) ==
    /\ n \in DOMAIN rec
    /\ rec[n].pc = "access" /\ rec[n].operation = "update"
    /\ Delivered
    /\ \E allowed \in BOOLEAN : AccessChecked(n, allowed)

\* create-update.ts 344-353: the default value function of a field settles
DefaultValue(n, f) ==
    /\ n \in DOMAIN rec
    /\ dbField(rec[n].listKey, f).kind # "relation"
    /\ Task(rec[n], "fields", f).s = "pending"
    /\ Delivered
    /\ \E ok \in BOOLEAN :
          Commit(n, IF ok
                    THEN SetTask([rec[n] EXCEPT !.resolvedData[f] = Val], "fields", f, Fulfilled)
                    ELSE SetTask(rec[n], "fields", f, Rejected("Error", 0)))

LookupSettles(n, key, outcome) ==
    /\ rec' = [rec EXCEPT ![n].lookups[key] = outcome]
    /\ UNCHANGED <<call, writeLimit>>

\* nested-mutation-many-input-resolvers.ts 74-85: findOne, then
\* resolveUniqueWhereInput; either may throw, findOne may return null
GetConnects(n, f) ==
    /\ n \in DOMAIN rec
    /\ dbField(rec[n].listKey, f).mode = "many"
    /\ Delivered
    /\ \E k \in LookupsOf(rec[n], f, "connect") :
          /\ rec[n].lookups[k] = "pending"
          /\ \E outcome \in {"item", "null", "threw", "invalid"} : LookupSettles(n, k, outcome)

\* nested-mutation-many-input-resolvers.ts 52-72: a throwing findOne drops the
\* filter, resolveUniqueWhereInput is outside the try
GetDisconnects(n, f) ==
    /\ n \in DOMAIN rec
    /\ Delivered
    /\ \E k \in LookupsOf(rec[n], f, "disconnect") :
          /\ rec[n].lookups[k] = "pending"
          /\ \E outcome \in {"item", "null", "dropped", "invalid"} : LookupSettles(n, k, outcome)

\* the connect lookup of a to-one field
ToOneConnect(n, f) ==
    /\ n \in DOMAIN rec
    /\ dbField(rec[n].listKey, f).mode = "one"
    /\ Task(rec[n], "fields", f).s = "pending"
    /\ Delivered
    /\ \E k \in LookupsOf(rec[n], f, "connect") :
          /\ rec[n].lookups[k] = "pending"
          /\ \E outcome \in {"item", "null", "threw", "invalid"} : LookupSettles(n, k, outcome)

\* the items of seq s whose index satisfies keep, in order
Keep(s, keep(_)) ==
    LET idx == SelectSeq([i \in DOMAIN s |-> i], keep) IN [j \in DOMAIN idx |-> s[idx[j]]]

\* nested-mutation-many-input-resolvers.ts 105-133: the value
\* resolveCreateAndConnect returns
ConnectAndCreates(n, f) ==
    LET connects == NotNull(rec[n].originalInput[f].connect)
        creates  == NotNull(rec[n].originalInput[f].create)
    IN [i \in DOMAIN connects |-> Filter] \o [i \in DOMAIN creates |-> ConnectId(i)]

\* nested-mutation-many-input-resolvers.ts 57-71: the value getDisconnects returns
Disconnects(n, f) ==
    LET filters == DisconnectFilters(rec[n].operation, rec[n].originalInput[f])
        kept    == SelectSeq([i \in DOMAIN filters |-> i],
                             LAMBDA i : rec[n].lookups[<<f, "disconnect", i>>] \in {"item", "null"})
    IN [j \in DOMAIN kept |-> filters[kept[j]]]

FieldSettles(n, f, task, value) ==
    Commit(n, SetTask([rec[n] EXCEPT !.resolvedData[f] = value], "fields", f, task))

\* nested-mutation-many-input-resolvers.ts 87-133 and 146-160
ResolveRelateToManyForCreateInput(n, f) ==
    /\ n \in DOMAIN rec
    /\ rec[n].operation = "create"
    /\ ToManyCanSettle(n, f)
    /\ IF CreateAndConnectErrors(n, f) > 0
       THEN FieldSettles(n, f, Rejected("Error", CreateAndConnectErrors(n, f)), Undefined)
       ELSE FieldSettles(n, f, Fulfilled,
                         ManyResult("absent", << >>, ConnectAndCreates(n, f)))

\* nested-mutation-many-input-resolvers.ts 162-191: Promise.all rejects as soon
\* as getDisconnects or resolveCreateAndConnect has rejected
ResolveRelateToManyForUpdateInput(n, f) ==
    /\ n \in DOMAIN rec
    /\ rec[n].operation = "update"
    /\ ToManyCanSettle(n, f)
    /\ \/ /\ DisconnectsRejected(n, f)
          /\ FieldSettles(n, f, Rejected("BAD_USER_INPUT", 0), Undefined)
       \/ /\ CreateAndConnectSettled(n, f) /\ CreateAndConnectErrors(n, f) > 0
          /\ FieldSettles(n, f, Rejected("Error", CreateAndConnectErrors(n, f)), Undefined)
       \/ /\ CreateAndConnectSettled(n, f) /\ CreateAndConnectErrors(n, f) = 0
          /\ DisconnectsSettled(n, f) /\ ~DisconnectsRejected(n, f)
          /\ FieldSettles(n, f, Fulfilled,
                ManyResult(IF rec[n].originalInput[f].disconnectAll THEN "[]" ELSE "undefined",
                           Disconnects(n, f), ConnectAndCreates(n, f)))

\* the to-one resolver once its lookup or nested create has settled
ResolveRelateToOne(n, f) ==
    /\ n \in DOMAIN rec
    /\ ToOneCanSettle(n, f)
    /\ IF CreateAndConnectErrors(n, f) > 0
       THEN FieldSettles(n, f, Rejected("KS_NESTED_ERROR", 0), Undefined)
       ELSE FieldSettles(n, f, Fulfilled, OneResult("connect"))

\* ------------------------------------------------------------------ hooks
HookAwaited(n, pc, hookName, key) ==
    /\ n \in DOMAIN rec
    /\ rec[n].pc = pc
    /\ Task(rec[n], hookName, key).s = "pending"
    /\ Delivered

\* create-update.ts 536-542: a field's resolveInput hook returns the value
\* of the field (here: the value it was given, or null), or throws
ResolveInputFieldHook(n, f) ==
    /\ HookAwaited(n, "resolveInput", "resolveInput", f)
    /\ \/ \E value \in {rec[n].resolvedData[f], Null} :
             Commit(n, SetTask([rec[n] EXCEPT !.resolvedData[f] = value],
                               "resolveInput", f, Fulfilled))
       \/ Commit(n, SetTask(rec[n], "resolveInput", f, Rejected("Error", 0)))

\* create-update.ts 545-547: the list's resolveInput hook (it returns the
\* resolved data it was given), or throws
ResolveInputListHook(n) ==
    /\ HookAwaited(n, "resolveInputList", "resolveInput", ListLevel)
    /\ \E ok \in BOOLEAN :
          Commit(n, SetTask(rec[n], "resolveInput", ListLevel,
                            IF ok THEN Fulfilled ELSE Rejected("Error", 0)))

\* hooks.ts 13-15 with create-update.ts 464-469: a field's validateInput hook
\* calls addValidationError when the input breaks its rule, or throws
ValidateInputFieldHook(n, f) ==
    /\ HookAwaited(n, "validateInput", "validateInput", f)
    /\ \/ Commit(n, SetTask([rec[n] EXCEPT !.collector =
                                IF fieldRuleBroken(rec[n].listKey, f, rec[n].resolvedData)
                                THEN Append(@, f) ELSE @],
                            "validateInput", f, Fulfilled))
       \/ Commit(n, SetTask(rec[n], "validateInput", f, Rejected("Error", 0)))

\* hooks.ts 13-15 with create-update.ts 475-477
ValidateInputListHook(n) ==
    /\ HookAwaited(n, "validateInputList", "validateInput", ListLevel)
    /\ \/ Commit(n, SetTask([rec[n] EXCEPT !.collector =
                                IF listRuleBroken(rec[n].listKey, rec[n].resolvedData)
                                THEN Append(@, ListLevel) ELSE @],
                            "validateInput", ListLevel, Fulfilled))
       \/ Commit(n, SetTask(rec[n], "validateInput", ListLevel, Rejected("Error", 0)))

\* hooks.ts 46-50: a field's beforeChange / afterChange hook settles
SideEffectFieldHook(n, f) ==
    /\ \E hookName \in {"beforeChange", "afterChange"} :
          /\ HookAwaited(n, hookName, hookName, f)
          /\ \E ok \in BOOLEAN :
                Commit(n, SetTask(rec[n], hookName, f,
                                  IF ok THEN Fulfilled ELSE Rejected("Error", 0)))

\* hooks.ts 54: the list's beforeChange / afterChange hook settles
SideEffectListHook(n) ==
    /\ \E hookName \in {"beforeChange", "afterChange"} :
          /\ HookAwaited(n, IF hookName = "beforeChange" THEN "beforeChangeList"
                            ELSE "afterChangeList", hookName, ListLevel)
          /\ \E ok \in BOOLEAN :
                Commit(n, SetTask(rec[n], hookName, ListLevel,
                                  IF ok THEN Fulfilled ELSE Rejected("Error", 0)))

\* ------------------------------------------------------------------ writes
WriteAwaited(n, caller) ==
    /\ n \in DOMAIN rec
    /\ rec[n].caller = caller
    /\ rec[n].pc = "writing"
    /\ Delivered

Written(st) == SetTask(st, "write", "$item", Fulfilled)

WriteFailed(st) ==
    Fail(SetTask(st, "write", "$item", Rejected("Error", 0)), Error("Error", "write", << >>))

\* Invoked when only the first registered closure of a coordinator is called
RECURSIVE Invoked_FirstClosureOnly(_, _)
Invoked_FirstClosureOnly(r, n) ==
    {n} \cup (IF r[n].afterChanges = << >> THEN {}
              ELSE Invoked_FirstClosureOnly(r, r[n].afterChanges[1]))

\* the records whose afterChange closure a call of n's afterChange invokes:
\* nestedMutationState.afterChange calls every registered closure at once
RECURSIVE Invoked(_, _)
Invoked(r, n) == {n} \cup UNION {Invoked(r, c) : c \in Range(r[n].afterChanges)}

\* create-update.ts 489-490 with 229-231: afterChange(item) is called on n
AfterChangeCalled(r, n) ==
    [m \in DOMAIN r |-> IF m \in Invoked(r, n) THEN Run([r[m] EXCEPT !.pc = "replay"]) ELSE r[m]]

Release == [writeLimit EXCEPT !.activeCount = @ - 1]

\* p-limit: the next queued write is started when fewer than the limit run
WriteLimitRun ==
    /\ LimitCanRun
    /\ rec' = [rec EXCEPT ![Head(writeLimit.queue)] =
                  SetTask([@ EXCEPT !.pc = "writing"], "write", "$item", Pending)]
    /\ writeLimit' = [activeCount |-> writeLimit.activeCount + 1,
                      queue |-> Tail(writeLimit.queue)]
    /\ UNCHANGED call

\* NestedMutationState.create calling the afterChange closure itself, right
\* after the nested write, instead of pushing it
NestedMutationStateCreate_CallsAfterChange(n) ==
    /\ WriteAwaited(n, "nested")
    /\ \/ rec' = AfterChangeCalled(
                    [rec EXCEPT ![n] = [Written(@) EXCEPT !.settled = "fulfilled"]], n)
       \/ rec' = [rec EXCEPT ![n] = WriteFailed(@)]
    /\ UNCHANGED <<call, writeLimit>>

\* create-update.ts 216-228, NestedMutationState.create: the write settles;
\* the closure is pushed and the connect reference returned
NestedMutationStateCreate(n) ==
    /\ WriteAwaited(n, "nested")
    /\ \/ rec' = [rec EXCEPT ![n] = [Written(@) EXCEPT !.pc = "deferred", !.settled = "fulfilled"],
                             ![Parent(n)].afterChanges = Append(@, n)]
       \/ rec' = [rec EXCEPT ![n] = WriteFailed(@)]
    /\ UNCHANGED <<call, writeLimit>>

\* create-update.ts 254-257: the write settles, afterChange is awaited
CreateOneWrite(n) ==
    /\ WriteAwaited(n, "createOne")
    /\ \/ rec' = AfterChangeCalled([rec EXCEPT ![n] = Written(@)], n)
       \/ rec' = [rec EXCEPT ![n] = WriteFailed(@)]
    /\ UNCHANGED <<call, writeLimit>>

\* create-update.ts 298-307: the write settles, afterChange is awaited
UpdateOneWrite(n) ==
    /\ WriteAwaited(n, "updateOne")
    /\ \/ rec' = AfterChangeCalled([rec EXCEPT ![n] = Written(@)], n)
       \/ rec' = [rec EXCEPT ![n] = WriteFailed(@)]
    /\ UNCHANGED <<call, writeLimit>>

\* CreateManyWrite with a limiter that frees the slot only when the write
\* succeeds
CreateManyWrite_KeepsSlotOnFailure(n) ==
    /\ WriteAwaited(n, "createMany")
    /\ \/ /\ rec' = AfterChangeCalled([rec EXCEPT ![n] = Written(@)], n)
          /\ writeLimit' = Release
       \/ /\ rec' = [rec EXCEPT ![n] = WriteFailed(@)]
          /\ UNCHANGED writeLimit
    /\ UNCHANGED call

\* create-update.ts 272-276: the limited write settles, afterChange is awaited
CreateManyWrite(n) ==
    /\ WriteAwaited(n, "createMany")
    /\ \/ rec' = AfterChangeCalled([rec EXCEPT ![n] = Written(@)], n)
       \/ rec' = [rec EXCEPT ![n] = WriteFailed(@)]
    /\ writeLimit' = Release
    /\ UNCHANGED call

\* create-update.ts 320-324: the limited write settles; afterChange is called
\* and not awaited, the entry resolves with the updated item
UpdateManyWrite(n) ==
    /\ WriteAwaited(n, "updateMany")
    /\ \/ rec' = AfterChangeCalled([rec EXCEPT ![n] = [Written(@) EXCEPT !.settled = "fulfilled"]], n)
       \/ rec' = [rec EXCEPT ![n] = WriteFailed(@)]
    /\ writeLimit' = Release
    /\ UNCHANGED call

\* NestedMutationStateAfterChange when a rejected closure is not raised: the
\* record's own afterChange hooks run whatever the replay gave
NestedMutationStateAfterChange_HooksAnyway(n) ==
    /\ n \in DOMAIN rec
    /\ ReplayCanSettle(n)
    /\ Commit(n, AfterReplay(rec[n]))

\* create-update.ts 229-231 with 490-491: every closure has settled
NestedMutationStateAfterChange(n) ==
    /\ n \in DOMAIN rec
    /\ ReplayCanSettle(n)
    /\ LET closures == rec[n].afterChanges
           err == promiseAllRejectWithMutationError("replay",
                     Map(LAMBDA c : rec[c].listKey, closures),
                     Map(LAMBDA c : IF rec[c].pc = "failed"
                                    THEN Rejected(rec[c].error.kind, 0) ELSE Fulfilled, closures))
       IN IF err # NoError THEN Commit(n, Fail(rec[n], err))
          ELSE Commit(n, AfterReplay(rec[n]))

Init ==
    /\ call = NoCall
    /\ rec = << >>
    /\ writeLimit = [activeCount |-> 0, queue |-> << >>]

\* the paths of the records of a call: an entry, the nested creates of its
\* relation fields, and theirs (Event -> Group -> User)
Index == 0..MaxWork
Paths ==
    {<<i>> : i \in 1..MaxBatch} \cup
    {<<i, j>> : i \in 1..MaxBatch, j \in Index} \cup
    {<<i, j, k>> : i \in 1..MaxBatch, j \in Index, k \in Index}

AllFieldKeys == UNION {Range(FieldKeys(listKey)) : listKey \in ListKeys}

Next ==
    \/ CreateOne
    \/ UpdateOne
    \/ CreateMany
    \/ UpdateMany
    \/ WriteLimitRun
    \/ \E n \in Paths : ApplyAccessControlForCreate(n)
    \/ \E n \in Paths : GetAccessControlledItemForUpdate(n)
    \/ \E n \in Paths : \E f \in AllFieldKeys : DefaultValue(n, f)
    \/ \E n \in Paths : \E f \in AllFieldKeys : GetConnects(n, f)
    \/ \E n \in Paths : \E f \in AllFieldKeys : GetDisconnects(n, f)
    \/ \E n \in Paths : \E f \in AllFieldKeys : ToOneConnect(n, f)
    \/ \E n \in Paths : \E f \in AllFieldKeys : ResolveRelateToManyForCreateInput(n, f)
    \/ \E n \in Paths : \E f \in AllFieldKeys : ResolveRelateToManyForUpdateInput(n, f)
    \/ \E n \in Paths : \E f \in AllFieldKeys : ResolveRelateToOne(n, f)
    \/ \E n \in Paths : \E f \in AllFieldKeys : ResolveInputFieldHook(n, f)
    \/ \E n \in Paths : ResolveInputListHook(n)
    \/ \E n \in Paths : \E f \in AllFieldKeys : ValidateInputFieldHook(n, f)
    \/ \E n \in Paths : ValidateInputListHook(n)
    \/ \E n \in Paths : \E f \in AllFieldKeys : SideEffectFieldHook(n, f)
    \/ \E n \in Paths : SideEffectListHook(n)
    \/ \E n \in Paths : NestedMutationStateCreate(n)
    \/ \E n \in Paths : CreateOneWrite(n)
    \/ \E n \in Paths : UpdateOneWrite(n)
    \/ \E n \in Paths : CreateManyWrite(n)
    \/ \E n \in Paths : UpdateManyWrite(n)
    \/ \E n \in Paths : NestedMutationStateAfterChange(n)

Spec == Init /\ [][Next]_vars

\* ------------------------------------------------------------------ properties
Write(n) == Task(rec[n], "write", "$item")

PhaseOrder ==
    <<"fields", "resolveInput", "required", "validateInput", "beforeChange", "write",
      "replay", "afterChange">>

\* the phase a position of the pipeline belongs to, as an index of PhaseOrder
\* (the access check comes before them all)
PhaseIndex(pc) ==
    CASE pc = "fields" -> 1
      [] pc \in {"resolveInput", "resolveInputList"} -> 2
      [] pc = "required" -> 3
      [] pc \in {"validateInput", "validateInputList"} -> 4
      [] pc \in {"beforeChange", "beforeChangeList"} -> 5
      [] pc = "writing" -> 6
      [] pc = "replay" -> 7
      [] pc \in {"afterChange", "afterChangeList"} -> 8
      [] OTHER -> 0

PhaseTasks(st, phase) == {k \in DOMAIN st.tasks : k[1] = phase}

\* the tasks a phase consists of
Expected(st, phase) ==
    CASE phase = "fields"   -> Range(Fields(st))
      [] phase = "required" -> {"$check"}
      [] phase = "write"    -> {"$item"}
      [] OTHER -> Range(Fields(st)) \cup
                  (IF phase \in listHooks(st.listKey) THEN {ListLevel} ELSE {})

Started(st, phase) ==
    IF phase = "replay"
    THEN st.pc = "replay" \/ st.at = "replay" \/ PhaseTasks(st, "afterChange") # {}
    ELSE PhaseTasks(st, phase) # {}

Succeeded(n, phase) ==
    IF phase = "replay"
    THEN \A c \in Range(rec[n].afterChanges) : rec[c].pc = "done"
    ELSE \A key \in Expected(rec[n], phase) :
            Task(rec[n], phase, key).s \in {"fulfilled", "skipped"}

\* C1: in every create or update the phases run in the order field
\* resolution, resolveInput, required check, validateInput, beforeChange,
\* write, nested replay, afterChange: a phase has started only if every task
\* of every earlier phase has settled without failure, and once a phase has
\* failed no later phase ever starts.
C1_PhaseOrder ==
    \A n \in DOMAIN rec :
        /\ \A i \in DOMAIN PhaseOrder, j \in DOMAIN PhaseOrder :
              (i < j /\ Started(rec[n], PhaseOrder[j])) => Succeeded(n, PhaseOrder[i])
        /\ rec[n].pc = "failed" =>
              \A j \in DOMAIN PhaseOrder :
                 j > PhaseIndex(rec[n].at) => ~Started(rec[n], PhaseOrder[j])

\* an Event was created with an inline Group: every phase has run, the replay
\* of the nested afterChange included
C1_Witness ==
    /\ <<1>> \in DOMAIN rec /\ <<1, 0>> \in DOMAIN rec
    /\ rec[<<1>>].listKey = "Event" /\ rec[<<1>>].pc = "done"
    /\ rec[<<1>>].afterChanges = << <<1, 0>> >>
    /\ \A i \in DOMAIN PhaseOrder : Started(rec[<<1>>], PhaseOrder[i])

\* C2: at every nesting depth, the write of a record has started only if the
\* write of every record created inline under it has completed.
C2_NestedWriteFirst ==
    \A c \in DOMAIN rec :
        (Len(c) > 1 /\ Write(Parent(c)) # NoTask) => Write(c) = Fulfilled

\* a User created inline in a Group created inline in an Event, all three written
C2_Witness ==
    \E c \in DOMAIN rec :
        /\ Len(c) = 3
        /\ Write(c) = Fulfilled /\ Write(Parent(c)) = Fulfilled /\ Write(Top(c)) = Fulfilled

\* the afterChange closure of a record has been invoked
AfterChangeRan(st) ==
    \/ st.pc = "replay" \/ st.at = "replay"
    \/ \E k \in PhaseTasks(st, "afterChange") : st.tasks[k].s # "skipped"

\* C3: the afterChange of a record created inline, at any depth, is invoked
\* only once the write of the outermost operation has committed; it never is
\* when that write fails or is never reached.
C3_NestedAfterChangeDeferred ==
    \A c \in DOMAIN rec :
        (Len(c) > 1 /\ AfterChangeRan(rec[c])) => Write(Top(c)) = Fulfilled

\* the afterChange hook of a User two levels down has run
C3_Witness ==
    \E c \in DOMAIN rec :
        /\ Len(c) = 3
        /\ Task(rec[c], "afterChange", "name") = Fulfilled

\* the afterChange chain of a record has failed
ChainFailed(st) ==
    st.pc = "failed" /\ st.at \in {"replay", "afterChange", "afterChangeList"}

\* C4: in createOne, createMany, updateOne and updateMany, once the write has
\* succeeded the operation (or entry) settles only after its afterChange
\* chain has settled, it settles as failed when the chain has failed, and the
\* item stays written.
C4_AfterChangeFailurePropagates ==
    \A n \in DOMAIN rec :
        (Len(n) = 1 /\ Write(n) = Fulfilled) =>
            /\ rec[n].settled # "pending" => rec[n].pc \in {"done", "failed"}
            /\ ChainFailed(rec[n]) => rec[n].settled = "rejected"

\* the positions of s that satisfy test, in order
Positions(s, test(_)) == SelectSeq([i \in DOMAIN s |-> i], test)

\* C5: when a fan-out through the error aggregator (field resolution, the
\* field-level hooks, the nested afterChange replay) has raised, every one of
\* its tasks has settled and the MutationError carries exactly one reason per
\* failed task, in task order.
C5_AggregatesAllFailures ==
    \A n \in DOMAIN rec :
        LET st == rec[n]
            e  == st.error
            closures == st.afterChanges
            failed == IF e.from = "replay"
                      THEN Positions(closures, LAMBDA i : rec[closures[i]].pc = "failed")
                      ELSE Positions(Fields(st),
                                     LAMBDA i : Task(st, e.from, Fields(st)[i]).s = "rejected")
        IN e.kind = "KS_MUTATION_ERROR" =>
              /\ IF e.from = "replay"
                 THEN \A c \in Range(closures) : rec[c].pc \in {"done", "failed"}
                 ELSE \A f \in Range(Fields(st)) :
                         Task(st, e.from, f).s \in {"fulfilled", "skipped", "rejected"}
              /\ e.count = Len(failed)
              /\ Len(e.errors) = Len(failed)
              /\ \A i \in DOMAIN failed : e.errors[i].idx = failed[i]

\* both beforeChange field hooks of an Event have thrown
C5_Witness ==
    \E n \in DOMAIN rec :
        /\ rec[n].error.kind = "KS_MUTATION_ERROR"
        /\ rec[n].error.from = "beforeChange"
        /\ rec[n].error.count = 2

\* the rules the resolved data of a record breaks: required fields, the
\* fields' validateInput rules and the list's
Broken(st) ==
    Len(RequiredViolations(st))
    + Cardinality({f \in Range(Fields(st)) :
                      /\ "validateInput" \in fieldHooks(st.listKey, f)
                      /\ fieldRuleBroken(st.listKey, f, st.resolvedData)})
    + (IF "validateInput" \in listHooks(st.listKey) /\ listRuleBroken(st.listKey, st.resolvedData)
       THEN 1 ELSE 0)

\* C6: an operation whose data breaks M >= 2 rules of the required check and
\* the validateInput hooks fails with one ValidationFailure of exactly M
\* entries.
C6_AllViolationsReported ==
    \A n \in DOMAIN rec :
        (rec[n].error.kind = "KS_VALIDATION_FAILURE" /\ Broken(rec[n]) >= 2) =>
            rec[n].error.count = Broken(rec[n])

\* the to-one fields of a record whose input holds not exactly one operation
Malformed(st) ==
    {f \in Range(Fields(st)) :
        /\ dbField(st.listKey, f).mode = "one"
        /\ f \in DOMAIN st.originalInput
        /\ Cardinality(st.originalInput[f].keys) # 1}

\* C7: a create with a to-one input that holds not exactly one of connect /
\* create / disconnect fails with the BadUserInput of that field, writes no
\* item, and makes no storage call: no lookup, no nested create.
C7_MalformedToOneNoStorage ==
    \A n \in DOMAIN rec :
        (rec[n].operation = "create" /\ rec[n].pc # "access" /\ rec[n].at # "access"
         /\ Malformed(rec[n]) # {}) =>
            /\ \A f \in Malformed(rec[n]) :
                  Task(rec[n], "fields", f) = Rejected("BAD_USER_INPUT", 0)
            /\ rec[n].pc = "failed" =>
                  \A f \in Malformed(rec[n]) :
                     \E i \in DOMAIN rec[n].error.errors :
                        rec[n].error.errors[i] =
                           Reason("BAD_USER_INPUT", f, rec[n].error.errors[i].idx)
            /\ Write(n) = NoTask
            /\ rec[n].lookups = << >>
            /\ \A c \in DOMAIN rec : Len(c) > Len(n) => SubSeq(c, 1, Len(n)) # n

Entries == {n \in DOMAIN rec : Len(n) = 1}

\* the failure of a record comes from its own pipeline: its access check, a
\* task of its own, its own validation, the afterChange of one of its own
\* nested creates
OwnFailure(n) ==
    \/ rec[n].at = "access"
    \/ \E k \in DOMAIN rec[n].tasks : rec[n].tasks[k].s = "rejected"
    \/ rec[n].collector # << >>
    \/ rec[n].at = "replay" /\ \E c \in Range(rec[n].afterChanges) : rec[c].pc = "failed"

\* C8: in createMany and updateMany an entry fails only through its own
\* pipeline, and a failed entry holds nothing another entry waits for: the
\* limiter counts exactly the writes in flight and queues exactly the entries
\* ready to write.
C8_EntriesSettleIndependently ==
    call.kind \in {"createMany", "updateMany"} =>
        /\ \A n \in Entries : rec[n].pc = "failed" => OwnFailure(n)
        /\ writeLimit.activeCount = Cardinality({n \in Entries : rec[n].pc = "writing"})
        /\ Range(writeLimit.queue) = {n \in Entries : rec[n].pc = "resolved"}
        /\ Len(writeLimit.queue) = Cardinality(Range(writeLimit.queue))

\* on sqlite the write of the first entry has failed, the second entry has
\* been written and has run its afterChange hooks
C8_Witness ==
    /\ call.provider = "sqlite"
    /\ <<1>> \in DOMAIN rec /\ <<2>> \in DOMAIN rec
    /\ rec[<<1>>].pc = "failed" /\ rec[<<1>>].at = "writing"
    /\ rec[<<2>>].pc = "done" /\ Write(<<2>>) = Fulfilled

\* C9: on sqlite at most one write of a createMany / updateMany is in flight
\* at any time, the writes of nested creates included.
C9_SerializedWrites ==
    call.provider = "sqlite" =>
        Cardinality({n \in DOMAIN rec : Write(n) = Pending}) <= 1

\* C10: a to-many field given null, on create or update, resolves at once to
\* undefined: no error, no lookup, no nested create, no pending afterChange.
C10_ToManyNull ==
    \A n \in DOMAIN rec : \A f \in Range(Fields(rec[n])) :
        (/\ dbField(rec[n].listKey, f).mode = "many"
         /\ Get(rec[n].originalInput, f) = Null
         /\ Task(rec[n], "fields", f) # NoTask) =>
            /\ Task(rec[n], "fields", f) = Fulfilled
            /\ rec[n].resolvedData[f] = Undefined
            /\ LookupsOf(rec[n], f, "connect") = {}
            /\ LookupsOf(rec[n], f, "disconnect") = {}
            /\ ChildrenOf(n, f) = {}
            /\ \A c \in Range(rec[n].afterChanges) : c \notin ChildrenOf(n, f)

\* a Group updated with members: null has been written and has finished
C10_Witness ==
    /\ <<1>> \in DOMAIN rec
    /\ rec[<<1>>].operation = "update"
    /\ Get(rec[<<1>>].originalInput, "members") = Null
    /\ rec[<<1>>].pc = "done"

\* the to-many fields of record n given an object, once their resolver has started
ToManyGiven(n) ==
    {f \in Range(Fields(rec[n])) :
        /\ dbField(rec[n].listKey, f).mode = "many"
        /\ Get(rec[n].originalInput, f).t = "many"
        /\ Task(rec[n], "fields", f) # NoTask}

\* C11: on update of a to-many field with disconnectAll, a disconnect list
\* given alongside is ignored (no disconnect filter is looked up, the resolved
\* disconnect list is empty), the output carries set: [], and every inline
\* create given alongside is written and listed in the output connect.
C11_DisconnectAll ==
    \A n \in DOMAIN rec : \A f \in ToManyGiven(n) :
        LET input == rec[n].originalInput[f]
            out   == rec[n].resolvedData[f]
        IN (rec[n].operation = "update" /\ input.disconnectAll) =>
              /\ LookupsOf(rec[n], f, "disconnect") = {}
              /\ Task(rec[n], "fields", f) = Fulfilled =>
                    /\ out.set = "[]"
                    /\ out.disconnect = << >>
                    /\ Len(out.connect) = Len(NotNull(input.connect)) + Len(NotNull(input.create))
                    /\ \A i \in DOMAIN NotNull(input.create) :
                          /\ Child(n, i) \in DOMAIN rec
                          /\ Write(Child(n, i)) = Fulfilled
                          /\ out.connect[Len(NotNull(input.connect)) + i] = ConnectId(i)

\* disconnectAll was given with a disconnect list and an inline create, and
\* the field has resolved
C11_Witness ==
    \E n \in DOMAIN rec : \E f \in ToManyGiven(n) :
        /\ rec[n].originalInput[f].disconnectAll
        /\ rec[n].originalInput[f].disconnect # << >>
        /\ rec[n].originalInput[f].create # << >>
        /\ Task(rec[n], "fields", f) = Fulfilled

\* the disconnect filters of field f of record n whose lookup found a target
DisconnectTargets(n, f) ==
    {k \in LookupsOf(rec[n], f, "disconnect") : rec[n].lookups[k] = "item"}

\* C12: on update of a to-many field a disconnect filter that cannot be
\* resolved (no such target, the lookup errors, the unique-filter resolver
\* fails) is dropped and never fails the field, and the resolved disconnect
\* list holds exactly the filters that resolved to an existing target.
C12_UnresolvableDisconnectsDropped ==
    \A n \in DOMAIN rec : \A f \in ToManyGiven(n) :
        rec[n].operation = "update" =>
            /\ Task(rec[n], "fields", f).s = "rejected" =>
                  Task(rec[n], "fields", f).kind # "BAD_USER_INPUT"
            /\ Task(rec[n], "fields", f) = Fulfilled =>
                  Len(rec[n].resolvedData[f].disconnect) = Cardinality(DisconnectTargets(n, f))

\* the call has come to rest: nothing is left that can take a step
AtRest == call # NoCall /\ ~ENABLED Next

\* every connect lookup and nested create of every to-many field has settled
CreateAndConnectAllSettled ==
    \A n \in DOMAIN rec : \A f \in ToManyGiven(n) : CreateAndConnectSettled(n, f)

\* what resolveCreateAndConnect has settled with, whenever it has
CreateAndConnectOutcome ==
    \A n \in DOMAIN rec : \A f \in ToManyGiven(n) :
        LET input == rec[n].originalInput[f]
            task  == Task(rec[n], "fields", f)
        IN assertValidManyOperation(input) =>
              /\ \A i \in DOMAIN NotNull(input.connect) : <<f, "connect", i>> \in DOMAIN rec[n].lookups
              /\ \A i \in DOMAIN NotNull(input.create) : Child(n, i) \in DOMAIN rec
              /\ task.kind = "Error" =>
                    /\ CreateAndConnectSettled(n, f)
                    /\ task.count >= 1
                    /\ task.count = CreateAndConnectErrors(n, f)
              /\ task = Fulfilled =>
                    /\ CreateAndConnectSettled(n, f)
                    /\ CreateAndConnectErrors(n, f) = 0
                    /\ rec[n].resolvedData[f].connect = ConnectAndCreates(n, f)
                    /\ rec[n].resolvedData[f].create = << >>

\* C13: resolveCreateAndConnect starts every connect lookup and every nested
\* create of a to-many field and lets each run to completion whatever its
\* siblings do; it settles only once all have settled: with F >= 1 rejections
\* it fails with one error carrying the count F, otherwise it returns
\* {connect: the resolved filters followed by the ids of the nested creates,
\* create: []}.
C13_CreateAndConnectAllSettled ==
    /\ CreateAndConnectOutcome
    /\ AtRest => CreateAndConnectAllSettled

\* two nested creates of one field, the first rejected and the second written
\* all the same, and the field failed with the count 1
C13_Witness ==
    \E n \in DOMAIN rec : \E f \in ToManyGiven(n) :
        /\ Task(rec[n], "fields", f) = Rejected("Error", 1)
        /\ Cardinality(ChildrenOf(n, f)) = 2
        /\ rec[Child(n, 1)].settled = "rejected"
        /\ Write(Child(n, 2)) = Fulfilled

\* the field resolutions of a record that have rejected
RejectedFields(st) == {f \in Range(Fields(st)) : Task(st, "fields", f).s = "rejected"}

\* C14: when a field resolution of a record rejects, the pipeline waits for
\* all its field resolutions to settle and then fails with one composite
\* MutationError holding every rejection; for that record no resolveInput,
\* validateInput, beforeChange or afterChange hook is invoked and nothing is
\* written.
C14_FieldFailureStopsPipeline ==
    \A n \in DOMAIN rec :
        RejectedFields(rec[n]) # {} =>
            /\ \A k \in DOMAIN rec[n].tasks : k[1] = "fields"
            /\ Write(n) = NoTask
            /\ IF AnyPending(rec[n], "fields")
               THEN rec[n].pc = "fields" /\ rec[n].error = NoError
               ELSE /\ rec[n].pc = "failed" /\ rec[n].at = "fields"
                    /\ rec[n].error.kind = "KS_MUTATION_ERROR"
                    /\ rec[n].error.count = Cardinality(RejectedFields(rec[n]))
                    /\ {r.from : r \in Range(rec[n].error.errors)} = RejectedFields(rec[n])

\* a record has failed with two rejected field resolutions, another of its
\* fields having resolved
C14_Witness ==
    \E n \in DOMAIN rec :
        /\ rec[n].pc = "failed" /\ rec[n].at = "fields"
        /\ Cardinality(RejectedFields(rec[n])) = 2
        /\ \E f \in Range(Fields(rec[n])) : Task(rec[n], "fields", f) = Fulfilled

SideEffectHooks == {"beforeChange", "afterChange"}

\* the list-level hook of a phase of runSideEffectOnlyHook against the
\* field-level hooks of that phase
ListHookAfterFieldHooks ==
    \A n \in DOMAIN rec : \A hookName \in SideEffectHooks :
        LET st       == rec[n]
            rejected == \E f \in Range(Fields(st)) : Task(st, hookName, f).s = "rejected"
        IN /\ Task(st, hookName, ListLevel) # NoTask =>
                 \A f \in Range(Fields(st)) : Task(st, hookName, f).s \in {"fulfilled", "skipped"}
           /\ rejected => Task(st, hookName, ListLevel) = NoTask
           /\ (rejected /\ st.pc = "failed") => ~AnyPending(st, hookName)
           /\ (rejected /\ st.pc # "failed") => st.pc = hookName /\ AnyPending(st, hookName)

\* a list-level hook that has been invoked is not invoked again
ListHookOnce ==
    \A n \in DOMAIN rec : \A hookName \in SideEffectHooks :
        Task(rec[n], hookName, ListLevel).s \in {"fulfilled", "rejected"} =>
            /\ n \in DOMAIN rec'
            /\ Task(rec'[n], hookName, ListLevel) = Task(rec[n], hookName, ListLevel)

\* C15: in a phase of runSideEffectOnlyHook the list-level hook is invoked at
\* most once, only after every selected field-level hook has settled and only
\* when all of them succeeded; when a field-level hook rejects the others
\* still run to completion and the list-level hook is not invoked.
C15_ListHookAfterFieldHooks ==
    /\ []ListHookAfterFieldHooks
    /\ [][ListHookOnce]_vars

\* a beforeChange phase over two field-level hooks, one rejected and the other
\* run all the same, ended without the list's beforeChange hook
C15_Witness ==
    \E n \in DOMAIN rec :
        /\ rec[n].pc = "failed" /\ rec[n].at = "beforeChange"
        /\ "beforeChange" \in listHooks(rec[n].listKey)
        /\ \E f, g \in Range(Fields(rec[n])) :
              /\ Task(rec[n], "beforeChange", f).s = "rejected"
              /\ Task(rec[n], "beforeChange", g) = Fulfilled

\* the fields whose validateInput hook reports a violation for the record
FieldViolations(st) ==
    {f \in Range(Fields(st)) :
        /\ "validateInput" \in fieldHooks(st.listKey, f)
        /\ fieldRuleBroken(st.listKey, f, st.resolvedData)}

\* C16: the field-level and the list-level validateInput hooks report through
\* one collector: the list-level hook runs even when field-level hooks have
\* reported violations, and the one ValidationFailure raised carries the
\* violations of both levels.
C16_SharedCollector ==
    \A n \in DOMAIN rec :
        (/\ rec[n].error.kind = "KS_VALIDATION_FAILURE"
         /\ rec[n].at \in {"validateInput", "validateInputList"}
         /\ "validateInput" \in listHooks(rec[n].listKey)) =>
            /\ Task(rec[n], "validateInput", ListLevel) = Fulfilled
            /\ rec[n].error.count =
                  Cardinality(FieldViolations(rec[n]))
                  + (IF listRuleBroken(rec[n].listKey, rec[n].resolvedData) THEN 1 ELSE 0)

\* the field-level hook hookName of field f has been invoked on the record
HookInvoked(st, hookName, f) == Task(st, hookName, f).s \in {"pending", "fulfilled", "rejected"}

\* C17: the field-level beforeChange and afterChange hooks are invoked for
\* exactly the fields whose key is in the original input (a field absent from
\* it, defaulted or not, is skipped), the field-level resolveInput and
\* validateInput hooks for every field, and the list-level hook of a phase
\* runs whatever keys the input holds.
C17_SideEffectHooksOnInputKeys ==
    \A n \in DOMAIN rec : \A hookName \in HookNames :
        LET st == rec[n]
        IN PhaseTasks(st, hookName) # {} =>
              /\ \A f \in Range(Fields(st)) :
                    HookInvoked(st, hookName, f) <=>
                       /\ hookName \in fieldHooks(st.listKey, f)
                       /\ hookName \in SideEffectHooks => f \in DOMAIN st.originalInput
              /\ (/\ hookName \in listHooks(st.listKey)
                  /\ \A f \in Range(Fields(st)) : Task(st, hookName, f).s \in {"fulfilled", "skipped"}
                  /\ hookName = "validateInput" => FieldViolations(st) = {}) =>
                    Task(st, hookName, ListLevel) # NoTask

\* a create whose title was left out and defaulted has finished: the title's
\* resolveInput and validateInput hooks ran, its beforeChange and afterChange
\* hooks did not, the list's beforeChange and afterChange hooks did
C17_Witness ==
    \E n \in DOMAIN rec :
        /\ rec[n].pc = "done"
        /\ "title" \in Range(Fields(rec[n])) /\ "title" \notin DOMAIN rec[n].originalInput
        /\ rec[n].resolvedData["title"] = Val
        /\ Task(rec[n], "resolveInput", "title") = Fulfilled
        /\ Task(rec[n], "validateInput", "title") = Fulfilled
        /\ Task(rec[n], "beforeChange", "title") = Skipped
        /\ Task(rec[n], "afterChange", "title") = Skipped
        /\ Task(rec[n], "beforeChange", ListLevel) = Fulfilled
        /\ Task(rec[n], "afterChange", ListLevel) = Fulfilled

\* the sub-values of the resolved value of a multi field are all v
EverySubValue(st, f, v) == \A i \in DOMAIN st.resolvedData[f].values : st.resolvedData[f].values[i] = v

\* the required fields of a record whose resolved value is missing: null or
\* absent on create, null on update; a multi field is null when all its
\* sub-values are null and absent when all are absent
Offending(st) ==
    {f \in Range(Fields(st)) :
        /\ isRequired(st.listKey, f)
        /\ IF dbField(st.listKey, f).kind = "multi"
           THEN \/ EverySubValue(st, f, Null)
                \/ st.operation = "create" /\ EverySubValue(st, f, Undefined)
           ELSE \/ st.resolvedData[f] = Null
                \/ st.operation = "create" /\ st.resolvedData[f] = Undefined}

\* C18: the required check reports a violation exactly for a required field
\* whose resolved value is null or absent on create, or null on update (absent
\* on update is none); a multi field counts as null or absent only when all
\* its sub-values are null, or all absent, never when partly populated; there
\* is one violation per offending field and they are raised together.
C18_RequiredCheck ==
    \A n \in DOMAIN rec :
        Task(rec[n], "required", "$check") # NoTask =>
            IF Offending(rec[n]) = {}
            THEN rec[n].at # "required"
            ELSE /\ rec[n].pc = "failed" /\ rec[n].at = "required"
                 /\ rec[n].error.kind = "KS_VALIDATION_FAILURE"
                 /\ rec[n].error.count = Cardinality(Offending(rec[n]))
                 /\ {r.from : r \in Range(rec[n].error.errors)} = Offending(rec[n])

\* a create with no label and a file whose sub-values are all null has failed
\* with both violations
C18_Witness ==
    \E n \in DOMAIN rec :
        /\ rec[n].listKey = "Asset" /\ rec[n].operation = "create"
        /\ rec[n].at = "required" /\ rec[n].error.count = 2
        /\ "label" \notin DOMAIN rec[n].originalInput
        /\ EverySubValue(rec[n], "file", Null)

\* the afterChange closure of the record has been invoked
ClosureInvoked(st) == Started(st, "replay")

\* the closures of the coordinators, in the states of a call
PendingClosuresReplayed ==
    \A n \in DOMAIN rec :
        LET closures == rec[n].afterChanges
        IN /\ \A i, j \in DOMAIN closures : closures[i] = closures[j] => i = j
           /\ \A i \in DOMAIN closures :
                 /\ Parent(closures[i]) = n
                 /\ Write(closures[i]) = Fulfilled
                 /\ ClosureInvoked(rec[closures[i]]) <=> ClosureInvoked(rec[n])
           /\ rec[n].pc = "deferred" => ~ClosureInvoked(rec[n])
           /\ PhaseTasks(rec[n], "afterChange") # {} =>
                 \A c \in Range(closures) : rec[c].pc = "done"
           /\ (rec[n].pc = "failed" /\ rec[n].at = "replay") =>
                 /\ \A c \in Range(closures) : rec[c].pc \in {"done", "failed"}
                 /\ rec[n].error.kind = "KS_MUTATION_ERROR"
                 /\ rec[n].error.count = Cardinality({c \in Range(closures) : rec[c].pc = "failed"})
                 /\ rec[n].error.count >= 1
           /\ AtRest => rec[n].pc # "replay"

\* a closure is registered once, behind those registered before it, and is
\* invoked once: from the write of its record or from the pending list
ClosureOnce ==
    \A n \in DOMAIN rec :
        /\ n \in DOMAIN rec'
        /\ \/ rec'[n].afterChanges = rec[n].afterChanges
           \/ \E c \in DOMAIN rec : /\ rec[c].pc = "writing" /\ rec'[c].pc = "deferred"
                                    /\ rec'[n].afterChanges = Append(rec[n].afterChanges, c)
        /\ ClosureInvoked(rec[n]) => ClosureInvoked(rec'[n]) /\ rec'[n].pc # "deferred"
        /\ (~ClosureInvoked(rec[n]) /\ ClosureInvoked(rec'[n])) =>
              rec[n].pc = (IF rec[n].caller = "nested" THEN "deferred" ELSE "writing")

AccessDenied(st) == st.pc = "failed" /\ st.at = "access"

\* a record whose access check has not passed has resolved no field, called
\* no hook, started no lookup or nested create and written nothing
NothingBeforeAccess ==
    \A n \in DOMAIN rec :
        (rec[n].pc = "access" \/ AccessDenied(rec[n])) =>
            /\ rec[n].tasks = << >>
            /\ rec[n].lookups = << >>
            /\ rec[n].afterChanges = << >>
            /\ \A c \in DOMAIN rec : Len(c) > Len(n) => SubSeq(c, 1, Len(n)) # n
            /\ AccessDenied(rec[n]) => rec[n].error = AccessDeniedError

\* a record whose access check has rejected stays as it is
DeniedForGood ==
    \A n \in DOMAIN rec :
        AccessDenied(rec[n]) => n \in DOMAIN rec' /\ rec'[n] = rec[n]

\* C20: in every create and update, top-level or nested, access control is
\* checked before anything else: when it rejects, no field resolver, no hook
\* and no write is ever invoked for that record.
C20_AccessControlFirst ==
    /\ []NothingBeforeAccess
    /\ [][DeniedForGood]_vars

\* the access check of a nested create whose input holds a relation has
\* rejected, and the operation around it has failed
C20_Witness ==
    \E n \in DOMAIN rec :
        /\ Len(n) > 1
        /\ AccessDenied(rec[n])
        /\ \E f \in DOMAIN rec[n].originalInput : dbField(rec[n].listKey, f).kind = "relation"
        /\ rec[Top(n)].pc = "failed"

\* the pipeline of the record has met a failure that comes before its write:
\* a rejected field resolution or hook, a missing required field, a violation
\* reported by a validateInput hook
PreWriteFailure(st) ==
    \/ \E k \in DOMAIN st.tasks :
          /\ k[1] \in {"fields", "resolveInput", "validateInput", "beforeChange"}
          /\ st.tasks[k].s = "rejected"
    \/ Task(st, "required", "$check") # NoTask /\ Offending(st) # {}
    \/ /\ PhaseTasks(st, "validateInput") # {} /\ ~AnyPending(st, "validateInput")
       /\ FieldViolations(st) # {}
    \/ /\ Task(st, "validateInput", ListLevel) = Fulfilled
       /\ listRuleBroken(st.listKey, st.resolvedData)

\* the records created inline, at any depth, under record n
Descendants(n) == {c \in DOMAIN rec : Len(c) > Len(n) /\ SubSeq(c, 1, Len(n)) = n}

\* a record that fails before its write is not written and the closures of
\* the records written under it are left pending
NestedWriteOrphaned ==
    \A n \in DOMAIN rec :
        PreWriteFailure(rec[n]) =>
            /\ Write(n) = NoTask
            /\ \A c \in Range(rec[n].afterChanges) : Write(c) = Fulfilled
            /\ \A c \in Descendants(n) :
                  Write(c) = Fulfilled => rec[c].pc = "deferred" /\ ~ClosureInvoked(rec[c])

\* an item that has been written stays written
WrittenForGood ==
    \A n \in DOMAIN rec :
        Write(n) = Fulfilled => n \in DOMAIN rec' /\ Task(rec'[n], "write", "$item") = Fulfilled

\* C21: when a pipeline fails before its write (a field resolution rejects,
\* a required field is missing, a validateInput hook reports a violation, a
\* beforeChange hook rejects) and a nested create under it has committed its
\* write, the nested item stays written, the enclosing item is never written
\* and the afterChange closure of the nested item is never invoked.
C21_NestedWriteOrphaned ==
    /\ []NestedWriteOrphaned
    /\ [][WrittenForGood]_vars

\* a beforeChange hook of a record has rejected after a nested create under it
\* was written, and the call has come to rest
C21_Witness ==
    \E n \in DOMAIN rec :
        /\ rec[n].pc = "failed" /\ rec[n].at \in {"beforeChange", "beforeChangeList"}
        /\ rec[n].afterChanges # << >>
        /\ AtRest

\* the own afterChange hooks of a record against the replay of its closures
ReplayBeforeOwnHooks ==
    \A n \in DOMAIN rec :
        LET closures == Range(rec[n].afterChanges)
        IN /\ rec[n].pc = "replay" => PhaseTasks(rec[n], "afterChange") = {}
           /\ (\E c \in closures : rec[c].pc # "done") => PhaseTasks(rec[n], "afterChange") = {}
           /\ (\E c \in closures : rec[c].pc = "failed") =>
                 /\ rec[n].pc \in {"replay", "failed"}
                 /\ rec[n].pc = "failed" =>
                       rec[n].at = "replay" /\ \A d \in closures : rec[d].pc \in {"done", "failed"}

\* the own afterChange hooks of a record start in a step that finds every
\* closure of its coordinator finished
OwnHooksStart ==
    \A n \in DOMAIN rec :
        (/\ n \in DOMAIN rec'
         /\ PhaseTasks(rec[n], "afterChange") = {}
         /\ PhaseTasks(rec'[n], "afterChange") # {}) =>
            \A c \in Range(rec[n].afterChanges) : rec[c].pc = "done"

\* C22: in the afterChange chain of an operation the replay of the nested
\* afterChange closures has fully settled before the operation's own
\* afterChange hooks start, and when the replay fails (a closure rejects) none
\* of its own field-level or list-level afterChange hooks is invoked.
C22_ReplayBeforeOwnHooks ==
    /\ []ReplayBeforeOwnHooks
    /\ [][OwnHooksStart]_vars

\* the replay of a record with an afterChange hook on a field of its input has
\* failed, and the call has come to rest without that hook
C22_Witness ==
    \E n \in DOMAIN rec :
        /\ rec[n].pc = "failed" /\ rec[n].at = "replay"
        /\ \E f \in DOMAIN rec[n].originalInput : "afterChange" \in fieldHooks(rec[n].listKey, f)
        /\ PhaseTasks(rec[n], "afterChange") = {}
        /\ AtRest
====
